---- MODULE Spec2Model ----
(***************************************************************************)
(* Registry compiler (tools/registry_compile.py): Codex Abyssiae markdown  *)
(* -> cards.json.                                                          *)
(*                                                                         *)
(* Text is modelled as a sequence of one-character strings, so that the    *)
(* regular expressions and the str methods of the script are computed      *)
(* character by character.  Positions of the helper operators named after  *)
(* Python methods (find, rfind, Slice) are 0-based like Python's.          *)
(***************************************************************************)
EXTENDS Integers, Sequences, FiniteSets, TLC

(***************************************************************************)
(* Characters and str primitives                                           *)
(***************************************************************************)
NL == "\n"
TAB == "\t"
SP == " "
\* the separator glyph U+2194 (one code point) of the Angel/Demon field
ARROW == "<->"
\* Python's None
None == <<"<None>">>
\* U+1D400 (one code point): a letter of category Lu, which str.isalnum()
\* accepts and for which str.lower() has no lower-case form
BOLD_A == "<U+1D400>"

\* \s of the regular expressions, and the characters str.strip() removes
IsSpace(c) == c \in {SP, TAB, NL}

UpperChars == <<"A","B","C","D","E","F","G","H","I","J","K","L","M",
                "N","O","P","Q","R","S","T","U","V","W","X","Y","Z">>
LowerChars == <<"a","b","c","d","e","f","g","h","i","j","k","l","m",
                "n","o","p","q","r","s","t","u","v","w","x","y","z">>
Digits == <<"0","1","2","3","4","5","6","7","8","9">>

Range(s) == {s[i] : i \in DOMAIN s}

\* \d
IsDigit(c) == c \in Range(Digits)
\* \w of a str pattern: the alphanumeric characters of Unicode and the
\* underscore
IsWord(c) ==
    c \in Range(UpperChars) \cup Range(LowerChars) \cup Range(Digits) \cup {"_", BOLD_A}

LowerChar(c) ==
    IF c \in Range(UpperChars)
    THEN LowerChars[CHOOSE i \in DOMAIN UpperChars : UpperChars[i] = c]
    ELSE c
\* str.lower()
lower(s) == [i \in DOMAIN s |-> LowerChar(s[i])]

\* s[a:b] for 0 <= a, b <= len(s)
Slice(s, a, b) == SubSeq(s, a + 1, b)

\* str.strip()
strip(s) ==
    LET keep == {i \in DOMAIN s : ~IsSpace(s[i])}
    IN  IF keep = {} THEN <<>>
        ELSE SubSeq(s, CHOOSE i \in keep : \A j \in keep : i <= j,
                       CHOOSE i \in keep : \A j \in keep : j <= i)

\* whether sub occurs in s at 0-based position p (the first character is
\* compared before the slice is taken)
OccursAt(s, sub, p) ==
    /\ p >= 0
    /\ p + Len(sub) <= Len(s)
    /\ sub = <<>> \/ s[p + 1] = sub[1]
    /\ Slice(s, p, p + Len(sub)) = sub

\* sub in s
Contains(s, sub) == \E p \in 0..Len(s) : OccursAt(s, sub, p)

\* str.find(c) and str.rfind(c) for a one-character c: -1 when absent
find(s, c) ==
    LET at == {i \in DOMAIN s : s[i] = c}
    IN  IF at = {} THEN -1 ELSE (CHOOSE i \in at : \A j \in at : i <= j) - 1
rfind(s, c) ==
    LET at == {i \in DOMAIN s : s[i] = c}
    IN  IF at = {} THEN -1 ELSE (CHOOSE i \in at : \A j \in at : j <= i) - 1

\* str.split(c) for a one-character separator c
RECURSIVE split(_, _)
split(s, c) ==
    LET p == find(s, c)
    IN  IF p = -1 THEN <<s>>
        ELSE <<Slice(s, 0, p)>> \o split(Slice(s, p + 1, Len(s)), c)

\* str.replace(a, b) for one-character a and b
replace(s, a, b) == [i \in DOMAIN s |-> IF s[i] = a THEN b ELSE s[i]]

\* the number of whitespace characters from 0-based position p on
RECURSIVE SpaceRun(_, _)
SpaceRun(s, p) ==
    IF p < Len(s) /\ IsSpace(s[p + 1]) THEN 1 + SpaceRun(s, p + 1) ELSE 0

\* the end (exclusive, 0-based) of the run of characters other than a
\* newline that starts at p: the extent of a greedy [^\n]+ or .+
RECURSIVE LineEnd(_, _)
LineEnd(s, p) ==
    IF p < Len(s) /\ s[p + 1] # NL THEN LineEnd(s, p + 1) ELSE p

Max(S) == CHOOSE x \in S : \A y \in S : y <= x
Min(S) == CHOOSE x \in S : \A y \in S : x <= y

(***************************************************************************)
(* field(b, k): re.search(r"-\s*%s:\s*([^\n]+)" % re.escape(k), b)         *)
(***************************************************************************)
\* The ways the pattern matches at p, as <<j, m>>: j whitespace characters
\* after the dash, the key, a colon, m whitespace characters, and then at
\* least one character that is not a newline.
FieldMatches(b, k, p) ==
    IF ~(p < Len(b) /\ b[p + 1] = "-") THEN {}
    ELSE UNION {
           IF OccursAt(b, k \o <<":">>, p + 1 + j)
           THEN LET q == p + 1 + j + Len(k) + 1
                IN  {<<j, m>> : m \in {x \in 0..SpaceRun(b, q) :
                                        q + x < Len(b) /\ b[q + x + 1] # NL}}
           ELSE {} : j \in 0..SpaceRun(b, p + 1)}

\* group(1) of the match at p: both \s* are greedy, the first one has the
\* higher priority, and [^\n]+ takes the rest of the line
FieldGroup(b, k, p) ==
    LET ms == FieldMatches(b, k, p)
        j  == Max({jm[1] : jm \in ms})
        m  == Max({jm[2] : jm \in {x \in ms : x[1] = j}})
        g  == p + 1 + j + Len(k) + 1 + m
    IN  Slice(b, g, LineEnd(b, g))

\* field that returns None when nothing matches
field_NoneWhenAbsent(b, k) ==
    LET ps == {p \in 0..Len(b) : FieldMatches(b, k, p) # {}}
    IN  IF ps = {} THEN None ELSE strip(FieldGroup(b, k, Min(ps)))

field(b, k) ==
    LET ps == {p \in 0..Len(b) : FieldMatches(b, k, p) # {}}
    IN  IF ps = {} THEN <<>> ELSE strip(FieldGroup(b, k, Min(ps)))

(***************************************************************************)
(* suit, map_freq, parse_list                                              *)
(***************************************************************************)
\* suit with the swords|blade rule tried before the pentacles|coin rule
suit_SwordsFirst(n) ==
    LET s == lower(n)
    IN  IF Contains(s, <<"w","a","n","d","s">>) THEN "wands"
        ELSE IF Contains(s, <<"c","u","p","s">>) THEN "cups"
        ELSE IF Contains(s, <<"s","w","o","r","d","s">>)
                \/ Contains(s, <<"b","l","a","d","e">>) THEN "swords"
        ELSE IF Contains(s, <<"p","e","n","t","a","c","l","e","s">>)
                \/ Contains(s, <<"c","o","i","n">>) THEN "pentacles"
        ELSE "majors"

suit(n) ==
    LET s == lower(n)
    IN  IF Contains(s, <<"w","a","n","d","s">>) THEN "wands"
        ELSE IF Contains(s, <<"c","u","p","s">>) THEN "cups"
        ELSE IF Contains(s, <<"p","e","n","t","a","c","l","e","s">>)
                \/ Contains(s, <<"c","o","i","n">>) THEN "pentacles"
        ELSE IF Contains(s, <<"s","w","o","r","d","s">>)
                \/ Contains(s, <<"b","l","a","d","e">>) THEN "swords"
        ELSE "majors"

W_violet == <<"v","i","o","l","e","t">>
W_indigo == <<"i","n","d","i","g","o">>
W_silver == <<"s","i","l","v","e","r">>
W_gold == <<"g","o","l","d">>
W_emerald == <<"e","m","e","r","a","l","d">>
W_green == <<"g","r","e","e","n">>
W_aquamarine == <<"a","q","u","a","m","a","r","i","n","e">>
W_turquoise == <<"t","u","r","q","u","o","i","s","e">>
W_crimson == <<"c","r","i","m","s","o","n">>
W_scarlet == <<"s","c","a","r","l","e","t">>
W_red == <<"r","e","d">>

\* map_freq with the gold|emerald|green|aquamarine|turquoise rule tried
\* before the indigo|silver rule
map_freq_GoldFirst(ray) ==
    LET r == lower(IF ray = None \/ ray = <<>> THEN <<>> ELSE ray)
    IN  IF Contains(r, W_violet) THEN 963
        ELSE IF \E x \in {W_gold, W_emerald, W_green, W_aquamarine, W_turquoise} :
                    Contains(r, x) THEN 528
        ELSE IF Contains(r, W_indigo) \/ Contains(r, W_silver) THEN 852
        ELSE IF Contains(r, W_crimson) THEN 417
        ELSE IF Contains(r, W_scarlet) \/ Contains(r, W_red) THEN 285
        ELSE 432

\* map_freq with another default
map_freq_Default440(ray) ==
    LET r == lower(IF ray = None \/ ray = <<>> THEN <<>> ELSE ray)
    IN  IF Contains(r, W_violet) THEN 963
        ELSE IF Contains(r, W_indigo) \/ Contains(r, W_silver) THEN 852
        ELSE IF \E x \in {W_gold, W_emerald, W_green, W_aquamarine, W_turquoise} :
                    Contains(r, x) THEN 528
        ELSE IF Contains(r, W_crimson) THEN 417
        ELSE IF Contains(r, W_scarlet) \/ Contains(r, W_red) THEN 285
        ELSE 440

map_freq(ray) ==
    LET r == lower(IF ray = None \/ ray = <<>> THEN <<>> ELSE ray)
    IN  IF Contains(r, W_violet) THEN 963
        ELSE IF Contains(r, W_indigo) \/ Contains(r, W_silver) THEN 852
        ELSE IF \E x \in {W_gold, W_emerald, W_green, W_aquamarine, W_turquoise} :
                    Contains(r, x) THEN 528
        ELSE IF Contains(r, W_crimson) THEN 417
        ELSE IF Contains(r, W_scarlet) \/ Contains(r, W_red) THEN 285
        ELSE 432

\* [p for p in parts if p]
RECURSIVE NonEmpty(_)
NonEmpty(parts) ==
    IF parts = <<>> THEN <<>>
    ELSE (IF Head(parts) # <<>> THEN <<Head(parts)>> ELSE <<>>) \o NonEmpty(Tail(parts))

\* parse_list that splits on "," only
parse_list_CommaOnly(value) ==
    IF value = None \/ value = <<>> THEN <<>>
    ELSE LET pieces == split(value, ",")
             parts  == [i \in DOMAIN pieces |-> strip(pieces[i])]
         IN  NonEmpty(parts)

\* parse_list that keeps only the first occurrence of a token
parse_list_Dedup(value) ==
    IF value = None \/ value = <<>> THEN <<>>
    ELSE LET cleaned == replace(value, ";", ",")
             pieces  == split(cleaned, ",")
             parts   == [i \in DOMAIN pieces |-> strip(pieces[i])]
             first   == [i \in DOMAIN parts |->
                            IF \E j \in 1..(i - 1) : parts[j] = parts[i] THEN <<>> ELSE parts[i]]
         IN  NonEmpty(first)

parse_list(value) ==
    IF value = None \/ value = <<>> THEN <<>>
    ELSE LET cleaned == replace(value, ";", ",")
             pieces  == split(cleaned, ",")
             parts   == [i \in DOMAIN pieces |-> strip(pieces[i])]
         IN  NonEmpty(parts)

(***************************************************************************)
(* The block splitter and the per-block derivations of the card loop       *)
(***************************************************************************)
H2 == <<"#","#"," ">>

\* b.startswith(prefix)
startswith(b, prefix) == OccursAt(b, prefix, 0)

\* the newlines re.split(r"\n(?=##\s)", md) splits at (0-based)
SplitPoints(text) ==
    {p \in 0..(Len(text) - 1) :
        /\ text[p + 1] = NL
        /\ OccursAt(text, <<"#","#">>, p + 1)
        /\ p + 3 < Len(text)
        /\ IsSpace(text[p + 4])}

RECURSIVE re_split(_)
re_split(text) ==
    LET ps == SplitPoints(text)
    IN  IF ps = {} THEN <<text>>
        ELSE <<Slice(text, 0, Min(ps))>> \o re_split(Slice(text, Min(ps) + 1, Len(text)))

\* [b for b in segs if b.startswith("## ")]
RECURSIVE OnlyH2(_)
OnlyH2(segs) ==
    IF segs = <<>> THEN <<>>
    ELSE (IF startswith(Head(segs), H2) THEN <<Head(segs)>> ELSE <<>>) \o OnlyH2(Tail(segs))

Blocks(text) == OnlyH2(re_split(text))

\* re.search(r"^##\s+(.+?)\s*$", b, re.M) at p: the numbers j >= 1 of
\* whitespace characters \s+ may take so that a character other than a
\* newline follows for (.+?); \s*$ then always matches at the end of that line
NameMatches(b, p) ==
    IF ~(/\ p = 0 \/ (p > 0 /\ p <= Len(b) /\ b[p] = NL)
         /\ OccursAt(b, <<"#","#">>, p))
    THEN {}
    ELSE {j \in 1..SpaceRun(b, p + 2) :
            /\ p + 2 + j < Len(b)
            /\ b[p + 2 + j + 1] # NL}

\* whether everything from p to the end of its line is whitespace: \s*$
BlankToEol(b, p) == \A q \in (p + 1)..LineEnd(b, p) : IsSpace(b[q])

\* group(1): \s+ is greedy and (.+?) lazy, so the group starts after the
\* longest admissible whitespace run and ends as early as \s*$ allows
NameGroup(b, p) ==
    LET s == p + 2 + Max(NameMatches(b, p))
        e == Min({x \in (s + 1)..LineEnd(b, s) : BlankToEol(b, x)})
    IN  Slice(b, s, e)

NamePositions(b) == {p \in 0..Len(b) : NameMatches(b, p) # {}}
name_match(b) == NamePositions(b) # {}
NameOf(b) == strip(NameGroup(b, Min(NamePositions(b))))

\* re.sub(r"[^\w]+", "_", name): every maximal run of characters that are
\* not word characters becomes one underscore (written at the run's first
\* character, the rest of the run dropped)
IsDropped(c) == c = ""
re_sub_nonword(s) ==
    LET t == [i \in DOMAIN s |->
                IF IsWord(s[i]) THEN s[i]
                ELSE IF i = 1 \/ IsWord(s[i - 1]) THEN "_"
                ELSE ""]
    IN  SelectSeq(t, LAMBDA c : ~IsDropped(c))

\* id with every single non-word character replaced (the pattern without +)
IdOf_EachChar(name) ==
    lower([i \in DOMAIN name |-> IF IsWord(name[i]) THEN name[i] ELSE "_"])

\* id without .lower()
IdOf_NoLower(name) == re_sub_nonword(name)

IdOf(name) == lower(re_sub_nonword(name))

\* angel, demon
AdParts(ad) == LET ps == split(ad, ARROW) IN [i \in DOMAIN ps |-> strip(ps[i])]
AngelOf(ad) ==
    IF ARROW \in Range(ad)
    THEN (IF AdParts(ad) # <<>> THEN AdParts(ad)[1] ELSE <<>>)
    ELSE <<>>
\* demon taken from the last part instead of the second
DemonOf_LastPart(ad) ==
    IF ARROW \in Range(ad)
    THEN (IF Len(AdParts(ad)) > 1 THEN AdParts(ad)[Len(AdParts(ad))] ELSE <<>>)
    ELSE <<>>

DemonOf(ad) ==
    IF ARROW \in Range(ad)
    THEN (IF Len(AdParts(ad)) > 1 THEN AdParts(ad)[2] ELSE <<>>)
    ELSE <<>>

\* crystal kept as the whole field
CrystalOf_WholeField(crystal_line) ==
    IF crystal_line # <<>> THEN strip(crystal_line) ELSE <<>>

\* chem closed at the first ")" instead of the last
ChemOf_FirstClose(crystal_line) ==
    IF crystal_line # <<>> /\ "(" \in Range(crystal_line) /\ ")" \in Range(crystal_line)
    THEN LET start == find(crystal_line, "(") + 1
             end   == find(crystal_line, ")")
         IN  IF end > start THEN strip(Slice(crystal_line, start, end)) ELSE <<>>
    ELSE <<>>

\* crystal, chem
CrystalOf(crystal_line) ==
    IF crystal_line # <<>> THEN strip(split(crystal_line, "(")[1]) ELSE <<>>
ChemOf(crystal_line) ==
    IF crystal_line # <<>> /\ "(" \in Range(crystal_line) /\ ")" \in Range(crystal_line)
    THEN LET start == find(crystal_line, "(") + 1
             end   == rfind(crystal_line, ")")
         IN  IF end > start THEN strip(Slice(crystal_line, start, end)) ELSE <<>>
    ELSE <<>>

(***************************************************************************)
(* freq: re.search(r"Solfeggio\s*=\s*([\d\.]+)", tech), float()            *)
(***************************************************************************)
W_Solfeggio == <<"S","o","l","f","e","g","g","i","o">>

IsTokenChar(c) == IsDigit(c) \/ c = "."

\* the end (exclusive) of the run of digits and dots that starts at p
RECURSIVE TokenEnd(_, _)
TokenEnd(s, p) ==
    IF p < Len(s) /\ IsTokenChar(s[p + 1]) THEN TokenEnd(s, p + 1) ELSE p

\* the pattern compiled with re.I: the marker in any letter case
FreqGroupStart_IgnoreCase(tech, p) ==
    IF ~OccursAt(lower(tech), lower(W_Solfeggio), p) THEN -1
    ELSE LET e == p + Len(W_Solfeggio) + SpaceRun(tech, p + Len(W_Solfeggio))
         IN  IF ~OccursAt(tech, <<"=">>, e) THEN -1
             ELSE LET g == e + 1 + SpaceRun(tech, e + 1)
                  IN  IF g < Len(tech) /\ IsTokenChar(tech[g + 1]) THEN g ELSE -1

\* where group(1) starts when the pattern matches at p, -1 when it does not
FreqGroupStart(tech, p) ==
    IF ~OccursAt(tech, W_Solfeggio, p) THEN -1
    ELSE LET e == p + Len(W_Solfeggio) + SpaceRun(tech, p + Len(W_Solfeggio))
         IN  IF ~OccursAt(tech, <<"=">>, e) THEN -1
             ELSE LET g == e + 1 + SpaceRun(tech, e + 1)
                  IN  IF g < Len(tech) /\ IsTokenChar(tech[g + 1]) THEN g ELSE -1

FreqPositions(tech) == {p \in 0..Len(tech) : FreqGroupStart(tech, p) # -1}
freq_match(tech) == FreqPositions(tech) # {}
FreqToken(tech) ==
    LET g == FreqGroupStart(tech, Min(FreqPositions(tech)))
    IN  Slice(tech, g, TokenEnd(tech, g))

DigitVal(c) == (CHOOSE i \in DOMAIN Digits : Digits[i] = c) - 1
RECURSIVE IntVal(_)
IntVal(ds) == IF ds = <<>> THEN 0 ELSE 10 * IntVal(SubSeq(ds, 1, Len(ds) - 1)) + DigitVal(ds[Len(ds)])
RECURSIVE DropTrailingZeros(_)
DropTrailingZeros(ds) ==
    IF ds # <<>> /\ ds[Len(ds)] = "0" THEN DropTrailingZeros(SubSeq(ds, 1, Len(ds) - 1)) ELSE ds

ValueError == "ValueError"
\* a float is kept as its integer part and the digits of its fraction
\* without trailing zeros, so that equal numbers are equal values
FloatOfInt(n) == [int |-> n, frac |-> <<>>]
\* whether float(tok) accepts a token of digits and dots: at most one dot
\* and at least one digit; it raises ValueError otherwise
IsFloatLiteral(tok) ==
    LET dots == {i \in DOMAIN tok : tok[i] = "."}
    IN  Cardinality(dots) <= 1 /\ Cardinality(dots) < Len(tok)
\* float(tok) for a token it accepts
float(tok) ==
    LET dots == {i \in DOMAIN tok : tok[i] = "."}
        d    == IF dots = {} THEN Len(tok) + 1 ELSE CHOOSE i \in dots : TRUE
    IN  [int  |-> IntVal(SubSeq(tok, 1, d - 1)),
         frac |-> DropTrailingZeros(SubSeq(tok, d + 1, Len(tok)))]

\* freq that lets a Ray keyword win over the marker of Technical
FreqOf_RayFirst(tech, ray) ==
    IF map_freq(ray) # 432 THEN FloatOfInt(map_freq(ray))
    ELSE IF freq_match(tech) THEN float(FreqToken(tech))
    ELSE FloatOfInt(map_freq(ray))

FreqOf(tech, ray) ==
    IF freq_match(tech) THEN float(FreqToken(tech)) ELSE FloatOfInt(map_freq(ray))

(***************************************************************************)
(* The record of one block (the dict of cards.append)                      *)
(***************************************************************************)
K_AppPulls == <<"A","p","p"," ","P","u","l","l","s">>
K_Ray == <<"R","a","y">>
K_AngelDemon == <<"A","n","g","e","l","/","D","e","m","o","n">>
K_Crystal == <<"C","r","y","s","t","a","l">>
K_Technical == <<"T","e","c","h","n","i","c","a","l">>
K_Letter == <<"L","e","t","t","e","r">>
K_Astrology == <<"A","s","t","r","o","l","o","g","y">>
K_Deities == <<"D","e","i","t","i","e","s">>
K_Artifact == <<"A","r","t","i","f","a","c","t">>
K_Pigment == <<"P","i","g","m","e","n","t">>
K_SecretTara == <<"S","e","c","r","e","t"," ","T","a","r","a">>
K_ThoughtForm == <<"T","h","o","u","g","h","t","-","f","o","r","m">>
K_HGAFragment == <<"H","G","A"," ","F","r","a","g","m","e","n","t">>
K_PatternGlyph == <<"P","a","t","t","e","r","n"," ","G","l","y","p","h">>
K_Psyche == <<"P","s","y","c","h","e">>
K_WitchEyeOrder == <<"W","i","t","c","h"," ","E","y","e"," ","O","r","d","e","r">>
K_NonLivingLineage == <<"N","o","n","-","L","i","v","i","n","g"," ","L","i","n","e","a","g","e">>

\* whether float() raises while the block's freq is computed
FreqRaises(b) ==
    LET tech == field(b, K_Technical)
    IN  freq_match(tech) /\ ~IsFloatLiteral(FreqToken(tech))

Card(b) ==
    LET name         == NameOf(b)
        app_pulls    == field(b, K_AppPulls)
        ray          == field(b, K_Ray)
        ad           == field(b, K_AngelDemon)
        crystal_line == field(b, K_Crystal)
        tech         == field(b, K_Technical)
    IN  [id                |-> IdOf(name),
         name              |-> name,
         suit              |-> suit(name),
         letter            |-> field(b, K_Letter),
         astrology         |-> field(b, K_Astrology),
         ray               |-> ray,
         angel             |-> AngelOf(ad),
         demon             |-> DemonOf(ad),
         deities           |-> field(b, K_Deities),
         crystal           |-> CrystalOf(crystal_line),
         chemistry         |-> ChemOf(crystal_line),
         artifact          |-> field(b, K_Artifact),
         pigment           |-> field(b, K_Pigment),
         tara              |-> field(b, K_SecretTara),
         thought           |-> field(b, K_ThoughtForm),
         hga_fragment      |-> field(b, K_HGAFragment),
         pattern_glyph     |-> field(b, K_PatternGlyph),
         psyche            |-> field(b, K_Psyche),
         technical         |-> tech,
         appPulls          |-> app_pulls,
         freq              |-> FreqOf(tech, ray),
         witchEyeOrders    |-> parse_list(field(b, K_WitchEyeOrder)),
         nonLivingLineages |-> parse_list(field(b, K_NonLivingLineage))]

\* the keys of the dict in the order the literal lists them, which is the
\* order json.dump writes them in
KeyOrder ==
    << "id", "name", "suit", "letter", "astrology", "ray", "angel", "demon",
       "deities", "crystal", "chemistry", "artifact", "pigment", "tara", "thought",
       "hga_fragment", "pattern_glyph", "psyche", "technical", "appPulls", "freq",
       "witchEyeOrders", "nonLivingLineages" >>
\* json.dump(cards, f, ...): the array of the objects, each the sequence of
\* its key/value members in insertion order
dump_object(card) == [k \in DOMAIN KeyOrder |-> <<KeyOrder[k], card[KeyOrder[k]]>>]
dump(records) == [n \in DOMAIN records |-> dump_object(records[n])]

(***************************************************************************)
(* Input documents                                                         *)
(***************************************************************************)
\* bounds of the generated documents
MaxLines == 3
MaxCrystal == 4
MaxAd == 4
MaxTech == 3
MaxList == 3
MaxName == 4
MaxBlocks == 3
\* the number of runs of the script on the same input and output path
MaxRuns == 2

\* all strings over an alphabet up to a length
Strings(alphabet, n) == UNION {[1..k -> alphabet] : k \in 0..n}

RECURSIVE JoinLines(_)
JoinLines(ls) ==
    IF Len(ls) = 1 THEN ls[1]
    ELSE ls[1] \o <<NL>> \o JoinLines(Tail(ls))

L_Heading == H2 \o <<"A">>
L_AppPulls == <<"-"," ">> \o K_AppPulls \o <<":"," ","y">>

\* documents of whole lines: headings with and without text, App Pulls
\* lines with and without a value, another field, blank lines
StructLines ==
    { L_Heading,
      H2,
      L_AppPulls,
      <<"-"," ">> \o K_AppPulls \o <<":">>,
      <<"-"," ">> \o K_AppPulls \o <<":"," ",TAB>>,
      <<"-"," ">> \o K_Ray \o <<":"," ","r","e","d">>,
      <<>> }
StructDocs == {JoinLines(ls) : ls \in UNION {[1..n -> StructLines] : n \in 1..MaxLines}}

\* one qualifying block with one more field line "- key: value"
OneField(k, v) == JoinLines(<<L_Heading, L_AppPulls, <<"-"," ">> \o k \o <<":"," ">> \o v>>)

CrystalDocs == {OneField(K_Crystal, v) : v \in Strings({"Q", "(", ")", SP}, MaxCrystal)}
AdDocs == {OneField(K_AngelDemon, v) : v \in Strings({"A", ARROW, SP}, MaxAd)}
ListDocs == {OneField(K_WitchEyeOrder, v) : v \in Strings({"a", ",", ";", SP}, MaxList)}
    \cup {OneField(K_NonLivingLineage, v) : v \in Strings({"a", ";"}, MaxList)}
TechValues == {W_Solfeggio \o t : t \in Strings({"=", "5", ".", SP}, MaxTech)}
TechDocs == {OneField(K_Technical, v) : v \in TechValues}
    \cup {OneField(K_Technical, v) \o <<NL,"-"," ">> \o K_Ray \o <<":"," ","r","e","d">> :
            v \in TechValues}

\* one qualifying block whose heading text has word characters, an
\* underscore, punctuation and blanks
NameDocs == {JoinLines(<<H2 \o v, L_AppPulls>>) : v \in Strings({"A", "_", "!", SP}, MaxName)}

\* one qualifying block with a Ray field, with and without a keyword
RayValues ==
    { <<"b","l","u","e">>, <<"R","E","D">>, W_gold, <<"x"," ">> \o W_violet,
      <<"s","k","y","-","g","r","e","y">> }
RayDocs == {OneField(K_Ray, v) : v \in RayValues}

\* lines "- Key: value" whose key is none of the keys the script reads
UnknownLines ==
    { <<"-"," ","F","o","o",":"," ","b","a","r">>,
      <<"-"," ","C","o","l","o","u","r",":"," ","r","e","d">>,
      <<"-"," ","X","-">> \o K_Ray \o <<":"," ">> \o W_violet,
      <<"-"," ","N","o","t","e",":"," ","-"," ">> \o K_Ray \o <<":"," ">> \o W_gold,
      <<"-"," ","N","o","t","e",":"," ","-"," ">> \o K_Technical \o <<":"," ">>
          \o W_Solfeggio \o <<"=",".">> }
L_Ray == <<"-"," ">> \o K_Ray \o <<":"," ">> \o W_red
InsertAt(ls, u, p) == SubSeq(ls, 1, p) \o <<u>> \o SubSeq(ls, p + 1, Len(ls))
\* a qualifying block with such a line at every place after the heading
UnknownDocs ==
    UNION {{JoinLines(InsertAt(base, u, p)) : u \in UnknownLines, p \in 1..Len(base)} :
            base \in {<<L_Heading, L_AppPulls>>, <<L_Heading, L_AppPulls, L_Ray>>}}

\* documents of lines that open with number signs: a level-2 heading, "##"
\* followed by a tab, a level-3 heading, a bare "##"
SplitLines ==
    { L_Heading,
      <<"#","#",TAB,"B">>,
      <<"#","#","#"," ","C">>,
      <<"#","#">>,
      L_AppPulls }
SplitDocs == {JoinLines(ls) : ls \in UNION {[1..n -> SplitLines] : n \in 1..MaxLines}}

\* documents of several blocks: two that compile to different records, one
\* without App Pulls, one whose Solfeggio marker float() rejects
OrderBlocks ==
    { JoinLines(<<L_Heading, L_AppPulls>>),
      JoinLines(<<H2 \o <<"B">>, L_AppPulls, L_Ray>>),
      H2 \o <<"C">>,
      JoinLines(<<H2 \o <<"D">>, L_AppPulls,
                  <<"-"," ">> \o K_Technical \o <<":"," ">> \o W_Solfeggio \o <<"=",".">> >>) }
OrderDocs == {JoinLines(bs) : bs \in UNION {[1..n -> OrderBlocks] : n \in 1..MaxBlocks}}

\* two qualifying blocks whose names differ and give the same id
DupBlocks ==
    << JoinLines(<<H2 \o <<"A"," ","b">>, L_AppPulls>>),
       JoinLines(<<H2 \o <<"a","-","B">>, L_AppPulls, L_Ray>>) >>
DupDocs ==
    { JoinLines(<<DupBlocks[1], DupBlocks[2]>>), JoinLines(<<DupBlocks[2], DupBlocks[1]>>) }

\* headings with a word character outside ASCII
GlyphDocs ==
    {JoinLines(<<H2 \o v, L_AppPulls>>) :
        v \in {<<BOLD_A>>, <<"A", BOLD_A>>, <<BOLD_A, " ", "B", "3">>}}

\* a Solfeggio marker whose token opens with neither a digit nor a dot, a
\* marker in another letter case, and a marker in another field
MarkerValues ==
    { W_Solfeggio \o <<" ","="," ","x">>,
      W_Solfeggio \o <<" ","="," ","-","5">>,
      W_Solfeggio \o <<" ","=">>,
      lower(W_Solfeggio) \o <<" ","="," ","5">>,
      <<"S","O","L","F","E","G","G","I","O","=","5">> }
L_PsycheMarker == <<"-"," ">> \o K_Psyche \o <<":"," ">> \o W_Solfeggio \o <<" ","="," ","5">>
MarkerDocs ==
    {JoinLines(<<L_Heading, L_AppPulls, <<"-"," ">> \o K_Technical \o <<":"," ">> \o v, L_Ray>>) :
        v \in MarkerValues}
    \cup { JoinLines(<<L_Heading, L_AppPulls, L_PsycheMarker, L_Ray>>),
           JoinLines(<<L_Heading, L_AppPulls, L_Ray, L_PsycheMarker>>) }

\* blocks whose Technical holds a marker float() rejects: without an App
\* Pulls line, with one that has no value before and after the Technical
\* line, each alone and before a qualifying block
L_BadMarker ==
    <<"-"," ">> \o K_Technical \o <<":"," ">> \o W_Solfeggio \o <<" ","="," ","1",".","2",".","3">>
L_NoAppPulls == <<"-"," ">> \o K_AppPulls \o <<":">>
GateBlocks ==
    { JoinLines(<<L_Heading, L_BadMarker>>),
      JoinLines(<<L_Heading, L_BadMarker, L_NoAppPulls>>),
      JoinLines(<<L_Heading, L_NoAppPulls, L_BadMarker>>) }
GateDocs ==
    GateBlocks \cup {JoinLines(<<b, H2 \o <<"B">>, L_AppPulls>>) : b \in GateBlocks}

Docs == StructDocs \cup CrystalDocs \cup AdDocs \cup ListDocs \cup TechDocs \cup NameDocs
    \cup RayDocs \cup UnknownDocs \cup SplitDocs \cup OrderDocs
    \cup DupDocs \cup GlyphDocs \cup MarkerDocs \cup GateDocs
\* the documents that are run with the output path in each of its states;
\* the others are run with its directory in place
EnvDocs == OrderDocs \cup DupDocs

\* the document the tests load the module with
D_Dummy == <<"#","#"," ","D","u","m","m","y","\n","-"," ","A","p","p"," ","P","u","l","l","s",":"," ","y","e","s","\n">>

(***************************************************************************)
(* The run of the script                                                   *)
(***************************************************************************)
VARIABLES
    inpFile,    \* the text of the file at INP, or NoInput when it cannot be read
    outDir,     \* the directory part of OUT: "exists", "missing", "uncreatable",
                \* or "none" when OUT is a bare file name (dirname is "")
    outFile,    \* the file at OUT: [exists, data]
    pc,         \* the statement the script is at
    md,         \* the text read
    blocks,     \* the blocks of md
    i,          \* the index in blocks of the block the loop is at
    cards,      \* the records appended so far
    origin,     \* for each record of cards, the index of its block (history)
    stdout,     \* the summary lines printed
    err,        \* the exception that ended the run, or "none"
    call,       \* the last call of a helper function of the loaded module
    before      \* the file at OUT as it was when the current run started (history)

vars == <<inpFile, outDir, outFile, pc, md, blocks, i, cards, origin, stdout, err, call, before>>

\* the output path, sys.argv[2] or its default
OUT == "OUT"
NoInput == <<"<no input>">>
NoCall == [fn |-> "none"]
Absent == [exists |-> FALSE, data |-> <<>>]
\* what an earlier run on another document left at OUT
Stale == [exists |-> TRUE, data |-> dump(<<Card(Blocks(D_Dummy)[1])>>)]

Init ==
    /\ inpFile \in Docs \cup {NoInput}
    /\ outDir \in (IF inpFile \in EnvDocs \cup {NoInput}
                   THEN {"exists", "missing", "uncreatable", "none"}
                   ELSE {"exists"})
    /\ outFile \in (IF outDir \in {"exists", "none"} THEN {Absent, Stale} ELSE {Absent})
    /\ pc = "read"
    /\ md = <<>>
    /\ blocks = <<>>
    /\ i = 1
    /\ cards = <<>>
    /\ origin = <<>>
    /\ stdout = <<>>
    /\ err = "none"
    /\ call = NoCall
    /\ before = outFile

\* the output opened for writing before the input is compiled
ReadInput_OpensOutput ==
    /\ pc = "read"
    /\ inpFile # NoInput
    /\ md' = inpFile
    /\ outFile' = [exists |-> TRUE, data |-> <<>>]
    /\ pc' = "split"
    /\ UNCHANGED <<inpFile, outDir, blocks, i, cards, origin, stdout, err, call, before>>

\* with open(INP) as f: md = f.read()
ReadInput ==
    /\ pc = "read"
    /\ inpFile # NoInput
    /\ md' = inpFile
    /\ pc' = "split"
    /\ UNCHANGED <<inpFile, outDir, outFile, blocks, i, cards, origin, stdout, err, call, before>>

ReadFails ==
    /\ pc = "read"
    /\ inpFile = NoInput
    /\ pc' = "failed"
    /\ err' = "OSError(read)"
    /\ UNCHANGED <<inpFile, outDir, outFile, md, blocks, i, cards, origin, stdout, call, before>>

\* blocks = [...]; cards = []
SplitBlocks ==
    /\ pc = "split"
    /\ blocks' = Blocks(md)
    /\ cards' = <<>>
    /\ origin' = <<>>
    /\ i' = 1
    /\ pc' = "loop"
    /\ UNCHANGED <<inpFile, outDir, outFile, md, stdout, err, call, before>>

InLoop == pc = "loop" /\ i <= Len(blocks)

\* if not name_match: continue
SkipNoName ==
    /\ InLoop
    /\ ~name_match(blocks[i])
    /\ i' = i + 1
    /\ UNCHANGED <<inpFile, outDir, outFile, pc, md, blocks, cards, origin, stdout, err, call, before>>

\* if not app_pulls: continue
SkipNoAppPulls ==
    /\ InLoop
    /\ name_match(blocks[i])
    /\ field(blocks[i], K_AppPulls) = <<>>
    /\ i' = i + 1
    /\ UNCHANGED <<inpFile, outDir, outFile, pc, md, blocks, cards, origin, stdout, err, call, before>>

\* freq computed before the App Pulls gate
FreqValueError_BeforeGate ==
    /\ InLoop
    /\ name_match(blocks[i])
    /\ FreqRaises(blocks[i])
    /\ pc' = "failed"
    /\ err' = ValueError
    /\ UNCHANGED <<inpFile, outDir, outFile, md, blocks, i, cards, origin, stdout, call, before>>

\* float(freq_match.group(1)) raises ValueError: the script ends there
FreqValueError ==
    /\ InLoop
    /\ name_match(blocks[i])
    /\ field(blocks[i], K_AppPulls) # <<>>
    /\ FreqRaises(blocks[i])
    /\ pc' = "failed"
    /\ err' = ValueError
    /\ UNCHANGED <<inpFile, outDir, outFile, md, blocks, i, cards, origin, stdout, call, before>>

\* the loop with the record put in front of the list instead of at its end
AppendCard_Prepend ==
    /\ InLoop
    /\ name_match(blocks[i])
    /\ field(blocks[i], K_AppPulls) # <<>>
    /\ ~FreqRaises(blocks[i])
    /\ cards' = <<Card(blocks[i])>> \o cards
    /\ origin' = <<i>> \o origin
    /\ i' = i + 1
    /\ UNCHANGED <<inpFile, outDir, outFile, pc, md, blocks, stdout, err, call, before>>

\* a record whose id is already in the list is not appended
AppendCard_UniqueIds ==
    /\ InLoop
    /\ name_match(blocks[i])
    /\ field(blocks[i], K_AppPulls) # <<>>
    /\ ~FreqRaises(blocks[i])
    /\ LET seen == \E n \in DOMAIN cards : cards[n].id = Card(blocks[i]).id
       IN  /\ cards' = (IF seen THEN cards ELSE Append(cards, Card(blocks[i])))
           /\ origin' = (IF seen THEN origin ELSE Append(origin, i))
    /\ i' = i + 1
    /\ UNCHANGED <<inpFile, outDir, outFile, pc, md, blocks, stdout, err, call, before>>

\* the list written to the output after each record
AppendCard_WriteThrough ==
    /\ InLoop
    /\ name_match(blocks[i])
    /\ field(blocks[i], K_AppPulls) # <<>>
    /\ ~FreqRaises(blocks[i])
    /\ cards' = Append(cards, Card(blocks[i]))
    /\ origin' = Append(origin, i)
    /\ outFile' = [exists |-> TRUE, data |-> dump(cards')]
    /\ i' = i + 1
    /\ UNCHANGED <<inpFile, outDir, pc, md, blocks, stdout, err, call, before>>

\* one dict updated and appended again for every block: every entry of the
\* list is the record of the last block
AppendCard_SharedDict ==
    /\ InLoop
    /\ name_match(blocks[i])
    /\ field(blocks[i], K_AppPulls) # <<>>
    /\ ~FreqRaises(blocks[i])
    /\ cards' = [n \in 1..(Len(cards) + 1) |-> Card(blocks[i])]
    /\ origin' = Append(origin, i)
    /\ i' = i + 1
    /\ UNCHANGED <<inpFile, outDir, outFile, pc, md, blocks, stdout, err, call, before>>

\* cards.append({...})
AppendCard ==
    /\ InLoop
    /\ name_match(blocks[i])
    /\ field(blocks[i], K_AppPulls) # <<>>
    /\ ~FreqRaises(blocks[i])
    /\ cards' = Append(cards, Card(blocks[i]))
    /\ origin' = Append(origin, i)
    /\ i' = i + 1
    /\ UNCHANGED <<inpFile, outDir, outFile, pc, md, blocks, stdout, err, call, before>>

LoopDone == pc = "loop" /\ i > Len(blocks)

\* os.makedirs(os.path.dirname(OUT), exist_ok=True)
MakeDirs ==
    /\ LoopDone
    /\ outDir \in {"exists", "missing"}
    /\ outDir' = "exists"
    /\ pc' = "open"
    /\ UNCHANGED <<inpFile, outFile, md, blocks, i, cards, origin, stdout, err, call, before>>

\* the directory cannot be created; os.makedirs("") raises FileNotFoundError
MakeDirsFails ==
    /\ LoopDone
    /\ outDir \in {"uncreatable", "none"}
    /\ pc' = "failed"
    /\ err' = (IF outDir = "none" THEN "FileNotFoundError(makedirs)" ELSE "OSError(makedirs)")
    /\ UNCHANGED <<inpFile, outDir, outFile, md, blocks, i, cards, origin, stdout, call, before>>

\* the file opened with mode "a": the array is written after what is there
WriteOutput_Append ==
    /\ pc = "open"
    /\ outFile' = [exists |-> TRUE, data |-> outFile.data \o dump(cards)]
    /\ pc' = "print"
    /\ UNCHANGED <<inpFile, outDir, md, blocks, i, cards, origin, stdout, err, call, before>>

\* the file written from its start without being truncated: what it held
\* beyond the length of the new array stays
WriteOutput_NoTruncate ==
    /\ pc = "open"
    /\ outFile' = [exists |-> TRUE,
                   data |-> dump(cards) \o SubSeq(outFile.data, Len(cards) + 1, Len(outFile.data))]
    /\ pc' = "print"
    /\ UNCHANGED <<inpFile, outDir, md, blocks, i, cards, origin, stdout, err, call, before>>

\* with open(OUT, "w") as f: json.dump(cards, f, ...)
WriteOutput ==
    /\ pc = "open"
    /\ outFile' = [exists |-> TRUE, data |-> dump(cards)]
    /\ pc' = "print"
    /\ UNCHANGED <<inpFile, outDir, md, blocks, i, cards, origin, stdout, err, call, before>>

\* the summary with the number of blocks
PrintSummary_CountsBlocks ==
    /\ pc = "print"
    /\ stdout' = Append(stdout, [count |-> Len(blocks), path |-> OUT])
    /\ pc' = "done"
    /\ UNCHANGED <<inpFile, outDir, outFile, md, blocks, i, cards, origin, err, call, before>>

\* print(f"Wrote {len(cards)} cards -> {OUT}")
PrintSummary ==
    /\ pc = "print"
    /\ stdout' = Append(stdout, [count |-> Len(cards), path |-> OUT])
    /\ pc' = "done"
    /\ UNCHANGED <<inpFile, outDir, outFile, md, blocks, i, cards, origin, err, call, before>>

\* the script is run again, with the same arguments, on the same files:
\* a new process, whose globals start afresh
Rerun ==
    /\ pc = "done"
    /\ Len(stdout) < MaxRuns
    /\ pc' = "read"
    /\ md' = <<>>
    /\ blocks' = <<>>
    /\ i' = 1
    /\ cards' = <<>>
    /\ origin' = <<>>
    /\ before' = outFile
    /\ UNCHANGED <<inpFile, outDir, outFile, stdout, err, call>>

Next ==
    \/ ReadInput
    \/ ReadFails
    \/ SplitBlocks
    \/ SkipNoName
    \/ SkipNoAppPulls
    \/ FreqValueError
    \/ AppendCard
    \/ MakeDirs
    \/ MakeDirsFails
    \/ WriteOutput
    \/ PrintSummary
    \/ Rerun

Spec == Init /\ [][Next]_vars

(***************************************************************************)
(* Calls of the helper functions of the loaded module, as the tests make   *)
(* them: the module is loaded on the dummy document, then field, suit,     *)
(* map_freq and parse_list are called with arguments of the caller         *)
(***************************************************************************)
\* bounds of the generated arguments
MaxWords == 2
MaxCallList == 4

\* the concatenations of up to n words
RECURSIVE Phrases(_, _)
Phrases(words, n) ==
    IF n = 0 THEN {<<>>}
    ELSE Phrases(words, n - 1) \cup {p \o w : p \in Phrases(words, n - 1), w \in words}

K_K == <<"K">>
FieldLines ==
    { <<"-"," ","K",":"," ","v">>,
      <<"-"," ","K",":">>,
      <<"-"," ","K",":"," ",TAB>>,
      <<"-","K",":"," "," ","v"," ","w"," ">>,
      <<"-"," ","k",":"," ","x">>,
      <<"a","-"," ","K",":"," ","u">>,
      <<>> }
FieldBlocks == {JoinLines(ls) : ls \in UNION {[1..n -> FieldLines] : n \in 1..MaxLines}}
FieldKeys == {K_K, <<"k">>, <<"M">>}

RayWords ==
    { W_violet, W_indigo, W_silver, W_gold, W_emerald, W_green, W_aquamarine,
      W_turquoise, W_crimson, W_scarlet, W_red,
      <<"S","i","l","v","e","r">>, <<"R","E","D">>, <<" ","a","n","d"," ">>, <<"x">> }
Rays == Phrases(RayWords, MaxWords) \cup {None}

SuitWords ==
    { <<"w","a","n","d","s">>, <<"c","u","p","s">>, <<"p","e","n","t","a","c","l","e","s">>,
      <<"c","o","i","n">>, <<"s","w","o","r","d","s">>, <<"b","l","a","d","e">>,
      <<"C","o","i","n","s">>, <<"B","l","a","d","e">>, <<"W","A","N","D","S">>,
      <<"Q","u","e","e","n"," ","o","f"," ">>, <<"T","h","e"," ","F","o","o","l">> }
Names == Phrases(SuitWords, MaxWords)

ListValues == Strings({"a", "b", ",", ";", SP}, MaxCallList) \cup {None}

\* the state the load of the module on D_Dummy ends in
InitCalls ==
    /\ inpFile = D_Dummy
    /\ outDir = "exists"
    /\ outFile = [exists |-> TRUE, data |-> dump(<<Card(Blocks(D_Dummy)[1])>>)]
    /\ pc = "done"
    /\ md = D_Dummy
    /\ blocks = Blocks(D_Dummy)
    /\ i = 2
    /\ cards = <<Card(Blocks(D_Dummy)[1])>>
    /\ origin = <<1>>
    /\ stdout = <<[count |-> 1, path |-> OUT]>>
    /\ err = "none"
    /\ call = NoCall
    /\ before = Absent

\* the interpreter runs one call at a time, to completion
Loaded == pc = "done" /\ call = NoCall
Rest == <<inpFile, outDir, outFile, pc, md, blocks, i, cards, origin, stdout, err, before>>

CallField ==
    /\ Loaded
    /\ \E b \in FieldBlocks, k \in FieldKeys :
          call' = [fn |-> "field", b |-> b, k |-> k, ret |-> field(b, k)]
    /\ UNCHANGED Rest

CallSuit ==
    /\ Loaded
    /\ \E n \in Names : call' = [fn |-> "suit", arg |-> n, ret |-> suit(n)]
    /\ UNCHANGED Rest

CallMapFreq ==
    /\ Loaded
    /\ \E r \in Rays : call' = [fn |-> "map_freq", arg |-> r, ret |-> map_freq(r)]
    /\ UNCHANGED Rest

CallParseList ==
    /\ Loaded
    /\ \E v \in ListValues : call' = [fn |-> "parse_list", arg |-> v, ret |-> parse_list(v)]
    /\ UNCHANGED Rest

\* the caller has read the result
Return ==
    /\ pc = "done"
    /\ call # NoCall
    /\ call' = NoCall
    /\ UNCHANGED Rest

NextCalls ==
    \/ Return
    \/ CallField
    \/ CallSuit
    \/ CallMapFreq
    \/ CallParseList

SpecCalls == InitCalls /\ [][NextCalls]_vars

(***************************************************************************)
(* Properties.  The operators named Ref... state what the specification    *)
(* says, line by line and position by position, independently of the       *)
(* regular expressions and str methods above.                              *)
(***************************************************************************)
\* the block a record of cards was assembled from
BlockOf(n) == blocks[origin[n]]

\* where a line has the form "- key: value": a dash, optional blanks, the
\* key and a colon (the dash need not open the line)
RefKeyAt(line, k) ==
    {p \in 0..(Len(line) - 1) :
        /\ line[p + 1] = "-"
        /\ OccursAt(line, k \o <<":">>, p + 1 + SpaceRun(line, p + 1))}
RefIsKeyLine(line, k) == RefKeyAt(line, k) # {}
\* the trimmed value such a line carries: the rest of the line
RefLineValue(line, k) ==
    LET p == Min(RefKeyAt(line, k))
    IN  strip(SubSeq(line, p + 1 + SpaceRun(line, p + 1) + Len(k) + 2, Len(line)))

RefHasValueLine(b, k) ==
    \E n \in DOMAIN split(b, NL) :
        /\ RefIsKeyLine(split(b, NL)[n], k)
        /\ RefLineValue(split(b, NL)[n], k) # <<>>

\* C1: once all blocks are processed, a block has produced a record if and
\* only if it contains an
\* "- App Pulls: <value>" line whose value on that line is non-empty after
\* trimming.
C1_RecordIffAppPullsLine ==
    LoopDone =>
        \A bi \in DOMAIN blocks :
            (bi \in Range(origin)) <=> RefHasValueLine(blocks[bi], K_AppPulls)

RefField(b, k) ==
    LET ls  == split(b, NL)
        hit == {n \in DOMAIN ls : RefIsKeyLine(ls[n], k)}
    IN  IF hit = {} THEN <<>> ELSE RefLineValue(ls[Min(hit)], k)

\* C2: field(block, key) is the trimmed value of the first line of the form
\* "- key: value", taken from that line only, and the empty string when
\* there is no such line or that line carries no value.
C2_FieldIsFirstLineValue ==
    call.fn = "field" => call.ret = RefField(call.b, call.k)

\* where a "Solfeggio = <number>" marker starting at p has its number:
\* the word, optional blanks, an equals sign, optional blanks, then a
\* character of a number
RefMarkerNumberAt(t, p) ==
    {g \in (p + Len(W_Solfeggio) + 1)..(Len(t) - 1) :
        /\ OccursAt(t, W_Solfeggio, p)
        /\ IsTokenChar(t[g + 1])
        /\ \E e \in (p + Len(W_Solfeggio) + 1)..g :
              /\ t[e] = "="
              /\ \A x \in (p + Len(W_Solfeggio) + 1)..g : x # e => IsSpace(t[x])}
RefMarkers(t) == {p \in 0..Len(t) : RefMarkerNumberAt(t, p) # {}}
\* the number of the first marker: its longest run of digits and dots
RefMarkerNumber(t) ==
    LET g == CHOOSE x \in RefMarkerNumberAt(t, Min(RefMarkers(t))) : TRUE
        h == Max({y \in (g + 1)..Len(t) : \A x \in (g + 1)..y : IsTokenChar(t[x])})
    IN  float(SubSeq(t, g + 1, h))

\* C3: the freq of a record is the number of the first "Solfeggio = <number>"
\* marker of its Technical field when there is one, whatever Ray is, and
\* map_freq(Ray) as a float when there is none.
C3_FreqFromMarkerElseRay ==
    \A n \in DOMAIN cards :
        LET tech == field(BlockOf(n), K_Technical)
            ray  == field(BlockOf(n), K_Ray)
        IN  cards[n].freq = IF RefMarkers(tech) # {}
                            THEN RefMarkerNumber(tech)
                            ELSE FloatOfInt(map_freq(ray))
\* a record whose Technical has a marker and whose Ray maps elsewhere
C3_Witness ==
    \E n \in DOMAIN cards :
        /\ RefMarkers(cards[n].technical) # {}
        /\ cards[n].freq = [int |-> 0, frac |-> <<"5">>]
        /\ cards[n].ray = W_red

RefOccursIgnoringCase(r, kw) ==
    \E p \in 1..(Len(r) - Len(kw) + 1) :
        \A x \in 1..Len(kw) : LowerChar(r[p + x - 1]) = kw[x]
RefRules ==
    << [kws |-> {W_violet}, hz |-> 963],
       [kws |-> {W_indigo, W_silver}, hz |-> 852],
       [kws |-> {W_gold, W_emerald, W_green, W_aquamarine, W_turquoise}, hz |-> 528],
       [kws |-> {W_crimson}, hz |-> 417],
       [kws |-> {W_scarlet, W_red}, hz |-> 285] >>
RefMapFreq(ray) ==
    LET r    == IF ray = None THEN <<>> ELSE ray
        hits == {n \in DOMAIN RefRules : \E kw \in RefRules[n].kws : RefOccursIgnoringCase(r, kw)}
    IN  IF hits = {} THEN 432 ELSE RefRules[Min(hits)].hz

\* C4: map_freq returns the value of the first rule, in the fixed order
\* violet, indigo|silver, gold|emerald|green|aquamarine|turquoise, crimson,
\* scarlet|red, that has a keyword in the ray in any letter case, and 432
\* when none has (None and the empty string included).
C4_MapFreqFirstRule ==
    call.fn = "map_freq" => call.ret = RefMapFreq(call.arg)
\* a ray with a keyword of rank 3 before a keyword of rank 2
C4_Witness ==
    /\ call.fn = "map_freq"
    /\ call.arg = W_emerald \o W_silver
    /\ call.ret = 852

\* C5: a run fails only when the input cannot be read or the output
\* directory cannot be created; no field value aborts it.
C5_OnlyIoFailures ==
    err \in {"none", "OSError(read)", "OSError(makedirs)", "FileNotFoundError(makedirs)"}

\* the 1-based places of a character in a string
RefPlaces(s, c) == {x \in DOMAIN s : s[x] = c}

\* no "(", no ")", or the last ")" before the first "("
RefMalformedGroup(cl) ==
    \/ RefPlaces(cl, "(") = {}
    \/ RefPlaces(cl, ")") = {}
    \/ Max(RefPlaces(cl, ")")) < Min(RefPlaces(cl, "("))
\* the trimmed text before the first "(", the whole trimmed field without one
RefBeforeGroup(cl) ==
    IF RefPlaces(cl, "(") = {} THEN strip(cl)
    ELSE strip(SubSeq(cl, 1, Min(RefPlaces(cl, "(")) - 1))

\* C6 as the specification states it: with a malformed or missing group,
\* chemistry is empty and crystal is the whole trimmed Crystal field.
C6_MalformedGroupWholeField ==
    \A n \in DOMAIN cards :
        LET cl == field(BlockOf(n), K_Crystal)
        IN  RefMalformedGroup(cl) =>
                cards[n].chemistry = <<>> /\ cards[n].crystal = strip(cl)
\* C6, amended: with a malformed or missing group, chemistry is empty and
\* crystal is the trimmed text before the first "(", which is the whole
\* trimmed field only when the field has no "(".
C6_MalformedGroupBeforeParen ==
    \A n \in DOMAIN cards :
        LET cl == field(BlockOf(n), K_Crystal)
        IN  RefMalformedGroup(cl) =>
                cards[n].chemistry = <<>> /\ cards[n].crystal = RefBeforeGroup(cl)
\* a record of a Crystal field with "(" and without ")"
C6_Witness ==
    \E n \in DOMAIN cards :
        /\ field(BlockOf(n), K_Crystal) = <<"Q", "(">>
        /\ cards[n].crystal = <<"Q">>
        /\ cards[n].chemistry = <<>>

\* C7: when a "(" is followed later by a ")", crystal is the trimmed text
\* before the first "(" and chemistry the trimmed text between the first
\* "(" and the last ")".
C7_GroupFirstOpenLastClose ==
    \A n \in DOMAIN cards :
        LET cl == field(BlockOf(n), K_Crystal)
        IN  ~RefMalformedGroup(cl) =>
                /\ cards[n].crystal = strip(SubSeq(cl, 1, Min(RefPlaces(cl, "(")) - 1))
                /\ cards[n].chemistry =
                      strip(SubSeq(cl, Min(RefPlaces(cl, "(")) + 1, Max(RefPlaces(cl, ")")) - 1))
\* a record whose chemistry keeps an inner parenthesis
C7_Witness ==
    \E n \in DOMAIN cards :
        /\ field(BlockOf(n), K_Crystal) = <<"Q", "(", ")", ")">>
        /\ cards[n].crystal = <<"Q">>
        /\ cards[n].chemistry = <<")">>

\* C8 as the specification states it: with a separator, angel is the
\* trimmed text before it and demon all the trimmed text after it; without
\* one both are empty.
C8_DemonIsAllAfterSeparator ==
    \A n \in DOMAIN cards :
        LET ad == field(BlockOf(n), K_AngelDemon)
            at == RefPlaces(ad, ARROW)
        IN  IF at = {} THEN cards[n].angel = <<>> /\ cards[n].demon = <<>>
            ELSE /\ cards[n].angel = strip(SubSeq(ad, 1, Min(at) - 1))
                 /\ cards[n].demon = strip(SubSeq(ad, Min(at) + 1, Len(ad)))
\* C8, amended: with a separator, angel is the trimmed text before the
\* first separator and demon the trimmed text between the first separator
\* and the second one (the end of the field when there is only one);
\* without a separator both are empty.
C8_DemonUpToNextSeparator ==
    \A n \in DOMAIN cards :
        LET ad  == field(BlockOf(n), K_AngelDemon)
            at  == RefPlaces(ad, ARROW)
            end == Min((at \ {Min(at)}) \cup {Len(ad) + 1})
        IN  IF at = {} THEN cards[n].angel = <<>> /\ cards[n].demon = <<>>
            ELSE /\ cards[n].angel = strip(SubSeq(ad, 1, Min(at) - 1))
                 /\ cards[n].demon = strip(SubSeq(ad, Min(at) + 1, end - 1))
\* a record of a field with two separators and text after each
C8_Witness ==
    \E n \in DOMAIN cards :
        /\ field(BlockOf(n), K_AngelDemon) = <<ARROW, "A", ARROW, "A">>
        /\ cards[n].angel = <<>>
        /\ cards[n].demon = <<"A">>

\* the k-th smallest element of a set of numbers
RefNth(S, k) == CHOOSE x \in S : Cardinality({y \in S : y < x}) = k - 1
\* the trimmed segments between the separators "," and ";", in order
RefSegments(v) ==
    LET seps   == RefPlaces(v, ",") \cup RefPlaces(v, ";")
        starts == {0} \cup seps
        ends   == seps \cup {Len(v) + 1}
    IN  [k \in 1..Cardinality(starts) |->
            strip(SubSeq(v, RefNth(starts, k) + 1, RefNth(ends, k) - 1))]
RefIsToken(t) == t # <<>>
RefTokens(v) ==
    IF v = None THEN <<>> ELSE SelectSeq(RefSegments(v), RefIsToken)

\* C9: parse_list returns the non-empty trimmed tokens between "," and ";"
\* in input order, a repeated token as often as it occurs; None and the
\* empty string give the empty list.
C9_ParseListTokensInOrder ==
    call.fn = "parse_list" => call.ret = RefTokens(call.arg)
\* a call with both separators and a token that occurs twice
C9_Witness ==
    /\ call.fn = "parse_list"
    /\ call.arg = <<"a", ";", "a", ",">>
    /\ call.ret = << <<"a">>, <<"a">> >>

RefNoDuplicates(l) == \A x, y \in DOMAIN l : l[x] = l[y] => x = y
RefCount(l, t) == Cardinality({x \in DOMAIN l : l[x] = t})

\* C10 as the specification states it: the lists of a record hold no token
\* twice.
C10_ListsDeduplicated ==
    \A n \in DOMAIN cards :
        /\ RefNoDuplicates(cards[n].witchEyeOrders)
        /\ RefNoDuplicates(cards[n].nonLivingLineages)
\* C10, amended: nothing is deduplicated; a token is in a list of the
\* record as many times as the field names it between separators, so
\* a list is free of duplicates exactly when its field is.
C10_ListsKeepRepeats ==
    \A n \in DOMAIN cards :
        \A kl \in { <<K_WitchEyeOrder, cards[n].witchEyeOrders>>,
                    <<K_NonLivingLineage, cards[n].nonLivingLineages>> } :
            LET segs == RefSegments(field(BlockOf(n), kl[1]))
            IN  /\ \A x \in DOMAIN segs :
                      segs[x] # <<>> => RefCount(kl[2], segs[x]) = RefCount(segs, segs[x])
                /\ \A y \in DOMAIN kl[2] : kl[2][y] \in Range(segs) \ {<<>>}
\* a record whose list holds a token twice
C10_Witness ==
    \E n \in DOMAIN cards :
        /\ field(BlockOf(n), K_WitchEyeOrder) = <<"a", ";", "a">>
        /\ cards[n].witchEyeOrders = << <<"a">>, <<"a">> >>

RefSuitRules ==
    << [kws |-> {<<"w","a","n","d","s">>}, suit |-> "wands"],
       [kws |-> {<<"c","u","p","s">>}, suit |-> "cups"],
       [kws |-> {<<"p","e","n","t","a","c","l","e","s">>, <<"c","o","i","n">>}, suit |-> "pentacles"],
       [kws |-> {<<"s","w","o","r","d","s">>, <<"b","l","a","d","e">>}, suit |-> "swords"] >>
RefSuit(name) ==
    LET hits == {n \in DOMAIN RefSuitRules :
                    \E kw \in RefSuitRules[n].kws : RefOccursIgnoringCase(name, kw)}
    IN  IF hits = {} THEN "majors" ELSE RefSuitRules[Min(hits)].suit

\* C11: suit returns, for every name in any letter case, exactly one of
\* wands, cups, pentacles, swords, majors: that of the first rule, in the
\* order wands, cups, pentacles|coin, swords|blade, with a keyword in the
\* name, and majors when no rule has one.
C11_SuitFirstRule ==
    call.fn = "suit" =>
        /\ call.ret \in {"wands", "cups", "pentacles", "swords", "majors"}
        /\ call.ret = RefSuit(call.arg)
\* a name with a keyword of rule 4 before a keyword of rule 3, in capitals
C11_Witness ==
    /\ call.fn = "suit"
    /\ call.arg = <<"B","l","a","d","e">> \o <<"C","o","i","n","s">>
    /\ call.ret = "pentacles"

\* a string from its first word character on, the empty one without any
RECURSIVE RefFromWord(_)
RefFromWord(s) ==
    IF s = <<>> \/ IsWord(Head(s)) THEN s ELSE RefFromWord(Tail(s))
\* left to right: a word character is kept in lower case, and a run of
\* other characters gives one underscore
RECURSIVE RefSlug(_)
RefSlug(s) ==
    IF s = <<>> THEN <<>>
    ELSE IF IsWord(Head(s)) THEN <<LowerChar(Head(s))>> \o RefSlug(Tail(s))
    ELSE <<"_">> \o RefSlug(RefFromWord(s))

\* C12: the id of a record is its name with every maximal run of non-word
\* characters replaced by one underscore, leading and trailing runs
\* included, in lower case.
C12_IdIsSlugOfName ==
    \A n \in DOMAIN cards : cards[n].id = RefSlug(cards[n].name)
\* a record whose name opens and closes with a run of non-word characters
C12_Witness ==
    \E n \in DOMAIN cards :
        /\ cards[n].name = <<"!", "A", " ", "!">>
        /\ cards[n].id = <<"_", "a", "_">>

\* a float: a natural integer part and the digits of a fraction
RefIsNumber(x) ==
    /\ DOMAIN x = {"int", "frac"}
    /\ x.int \in Nat
    /\ \A d \in DOMAIN x.frac : IsDigit(x.frac[d])
RefHasKeyword(ray) ==
    \E n \in DOMAIN RefRules : \E kw \in RefRules[n].kws : RefOccursIgnoringCase(ray, kw)

\* C13: the freq of every record is a number; it is 432.0 when Technical
\* has no "Solfeggio = <number>" marker and Ray is empty or has none of the
\* keywords of the Frequency Mapper.
C13_FreqNumericDefault432 ==
    \A n \in DOMAIN cards :
        /\ RefIsNumber(cards[n].freq)
        /\ (RefMarkers(cards[n].technical) = {} /\ ~RefHasKeyword(cards[n].ray))
              => cards[n].freq = [int |-> 432, frac |-> <<>>]
\* a record with a Ray that names no keyword, and one with a Technical that
\* names Solfeggio without a number and no Ray
C13_Witness ==
    /\ \E n \in DOMAIN cards :
          /\ cards[n].ray = <<"b","l","u","e">>
          /\ cards[n].freq = [int |-> 432, frac |-> <<>>]
    \/ \E n \in DOMAIN cards :
          /\ cards[n].technical = W_Solfeggio \o <<"=">>
          /\ cards[n].ray = <<>>
          /\ cards[n].freq = [int |-> 432, frac |-> <<>>]

RefKeys ==
    { "id", "name", "suit", "letter", "astrology", "ray", "angel", "demon",
      "deities", "crystal", "chemistry", "artifact", "pigment", "tara", "thought",
      "hga_fragment", "pattern_glyph", "psyche", "technical", "appPulls", "freq",
      "witchEyeOrders", "nonLivingLineages" }
\* the string fields of a record that come from a line, with the key of
\* that line, and the list fields likewise
RefStringFields ==
    { <<"letter", K_Letter>>, <<"astrology", K_Astrology>>, <<"ray", K_Ray>>,
      <<"angel", K_AngelDemon>>, <<"demon", K_AngelDemon>>, <<"deities", K_Deities>>,
      <<"crystal", K_Crystal>>, <<"chemistry", K_Crystal>>, <<"artifact", K_Artifact>>,
      <<"pigment", K_Pigment>>, <<"tara", K_SecretTara>>, <<"thought", K_ThoughtForm>>,
      <<"hga_fragment", K_HGAFragment>>, <<"pattern_glyph", K_PatternGlyph>>,
      <<"psyche", K_Psyche>>, <<"technical", K_Technical>>, <<"appPulls", K_AppPulls>> }
RefListFields ==
    { <<"witchEyeOrders", K_WitchEyeOrder>>, <<"nonLivingLineages", K_NonLivingLineage>> }
\* the colons of the lines, as <<line, place>>
RefColons(lines) ==
    UNION {{<<l, c>> : c \in RefPlaces(lines[l], ":")} : l \in DOMAIN lines}
\* none of the lines holds the key followed by a colon: the key stands
\* right before none of the colons
RefLineAbsent(lines, colons, k) ==
    \A lc \in colons :
        ~(lc[2] > Len(k) /\ SubSeq(lines[lc[1]], lc[2] - Len(k), lc[2] - 1) = k)

RefVocabulary ==
    { K_AppPulls, K_Ray, K_AngelDemon, K_Crystal, K_Technical, K_Letter, K_Astrology,
      K_Deities, K_Artifact, K_Pigment, K_SecretTara, K_ThoughtForm, K_HGAFragment,
      K_PatternGlyph, K_Psyche, K_WitchEyeOrder, K_NonLivingLineage }
\* a line "- Key: value" whose key, the text between the dash and the
\* first colon, is not in the vocabulary
RefIsUnknownLine(line) ==
    /\ OccursAt(line, <<"-", " ">>, 0)
    /\ RefPlaces(line, ":") # {}
    /\ strip(SubSeq(line, 3, Min(RefPlaces(line, ":")) - 1)) \notin RefVocabulary \cup {<<>>}
\* the lines after the heading of a block that are such lines
RefUnknownLines(b) ==
    {l \in 2..Len(split(b, NL)) : RefIsUnknownLine(split(b, NL)[l])}
\* the block without its line l
RefWithoutLine(b, l) ==
    LET ls == split(b, NL)
    IN  JoinLines(SubSeq(ls, 1, l - 1) \o SubSeq(ls, l + 1, Len(ls)))
\* the block compiles to a record
RefCompiles(b) == name_match(b) /\ field(b, K_AppPulls) # <<>> /\ ~FreqRaises(b)

\* C15: a line "- Key: value" with an unrecognized key changes nothing:
\* when the block without the line compiles to a record, the block with
\* the line, wherever it is, compiles to the same record and the run does
\* not fail at that block.
C15_UnknownLinesIgnored ==
    \A bi \in DOMAIN blocks :
        \A l \in RefUnknownLines(blocks[bi]) :
            RefCompiles(RefWithoutLine(blocks[bi], l)) =>
                /\ (pc = "loop" /\ bi < i) =>
                      \E n \in DOMAIN cards :
                          origin[n] = bi /\ cards[n] = Card(RefWithoutLine(blocks[bi], l))
                /\ ~(pc = "failed" /\ err = ValueError /\ i = bi)

\* the lines of a text that begin with "## "
RefHeadings(text) ==
    {n \in DOMAIN split(text, NL) : OccursAt(split(text, NL)[n], H2, 0)}
\* one block per such line, in order: the lines from it up to the line
\* before the next one, or the last line of the text
RefBlocks(text) ==
    LET ls == split(text, NL)
        hs == RefHeadings(text)
    IN  [k \in 1..Cardinality(hs) |->
            JoinLines(SubSeq(ls, RefNth(hs, k),
                             Min({h \in hs : h > RefNth(hs, k)} \cup {Len(ls) + 1}) - 1))]

\* C16: the blocks are cut at the lines that begin with "## " and nowhere
\* else: each block runs from such a line up to the next one or the end of
\* the text, the text before the first one is discarded, and the blocks
\* are in source order.
C16_BlocksCutAtH2Lines ==
    pc = "loop" => blocks = RefBlocks(md)

\* the trimmed text after "## " on the first line of a block
RefHeadingText(b) ==
    strip(SubSeq(split(b, NL)[1], Len(H2) + 1, Len(split(b, NL)[1])))

\* C17: the name of a record is the trimmed text of the heading line of
\* its block, its first line, and never text of a later line.
C17_NameIsHeadingText ==
    \A n \in DOMAIN cards : cards[n].name = RefHeadingText(BlockOf(n))

\* the output has been written in the current run
RefWritten == pc \in {"print", "done"}
\* the object a sequence of key/value members stands for
RefObject(members) ==
    [k \in {members[x][1] : x \in DOMAIN members} |->
        members[CHOOSE x \in DOMAIN members : members[x][1] = k][2]]
\* the blocks that pass the gate of the assembler: a heading is found and
\* the App Pulls value extracted is not empty
RefQualifying == {bi \in DOMAIN blocks : name_match(blocks[bi]) /\ field(blocks[bi], K_AppPulls) # <<>>}

\* C18: when the run is done, the output holds one record per qualifying block and no other, in
\* the order of the blocks in the input: its k-th record is the record of
\* the k-th qualifying block.
C18_OneRecordPerBlockInOrder ==
    pc = "done" =>
        /\ Len(outFile.data) = Cardinality(RefQualifying)
        /\ \A k \in DOMAIN outFile.data :
              RefObject(outFile.data[k]) = Card(blocks[RefNth(RefQualifying, k)])
\* an output of two different records, the second block of three skipped
C18_Witness ==
    /\ pc = "done"
    /\ Len(blocks) = 3
    /\ RefQualifying = {1, 3}
    /\ Len(outFile.data) = 2
    /\ RefObject(outFile.data[1]).name = <<"A">>
    /\ RefObject(outFile.data[2]).name = <<"B">>

\* the current run is at least the second one on this input and output path
\* and has written the output
RefWrittenAgain ==
    \/ pc = "print" /\ Len(stdout) >= 1
    \/ pc = "done" /\ Len(stdout) >= 2

\* C19: the second run on the same input and output path leaves in the
\* output file what the first run left there: the same records, in the
\* same order, with the same key order, whatever the file held before the
\* first run.
C19_SecondRunSameOutput ==
    RefWrittenAgain => outFile = before
\* a second run that has written two records
C19_Witness ==
    /\ RefWrittenAgain
    /\ Len(outFile.data) = 2
    /\ outFile = before

\* C20: after a successful run the output file holds the records compiled
\* in that run from the input, serialized in order, and nothing of what it
\* held before, also when there are fewer records than before or none.
C20_OutputFullyOverwritten ==
    RefWritten =>
        /\ outFile.exists
        /\ Len(outFile.data) = Len(cards)
        /\ \A k \in DOMAIN cards :
              /\ Len(outFile.data[k]) = Cardinality(RefKeys)
              /\ RefObject(outFile.data[k]) = cards[k]
\* a run that compiled no record over a file that held one
C20_Witness ==
    /\ pc = "done"
    /\ before.exists /\ Len(before.data) = 1
    /\ cards = <<>>
    /\ outFile = [exists |-> TRUE, data |-> <<>>]

\* the run ended in an exception raised by the statements that write
RefWriteFailed == pc = "failed" /\ err \notin {"OSError(read)", ValueError}

\* C21: whatever the output path is, a bare file name and a path whose
\* directories are missing included, a run on a readable input that compiles
\* creates the missing directories and writes the array: it does not end
\* in an exception of the statements that write, unless the directory
\* cannot be created.
C21_AnyOutputPathWritten ==
    RefWriteFailed => outDir = "uncreatable"

\* C22: records with equal ids are neither removed nor rejected: every
\* qualifying block the loop has passed has its record in the list, also
\* when its name gives the id of an earlier record; when the loop is over
\* there is one record per qualifying block, and the output written holds
\* as many.
C22_EqualIdsAllEmitted ==
    /\ \A bi \in RefQualifying : bi < i => \E n \in DOMAIN cards : origin[n] = bi
    /\ (pc \in {"open", "print", "done"}) => Len(cards) = Cardinality(RefQualifying)
    /\ RefWritten => Len(outFile.data) = Cardinality(RefQualifying)
\* an output of two records of different names and one id
C22_Witness ==
    /\ pc = "done"
    /\ Len(outFile.data) = 2
    /\ RefObject(outFile.data[1]).name = <<"A", " ", "b">>
    /\ RefObject(outFile.data[2]).name = <<"a", "-", "B">>
    /\ RefObject(outFile.data[1]).id = RefObject(outFile.data[2]).id

\* C23: when a run is done, the summary line it printed has the number of
\* records of the array in the output file and the output path.
C23_SummaryCountsRecordsWritten ==
    pc = "done" =>
        /\ stdout # <<>>
        /\ stdout[Len(stdout)].count = Len(outFile.data)
        /\ stdout[Len(stdout)].path = OUT
\* a run of three blocks that wrote two records and printed the count 2
C23_Witness ==
    /\ pc = "done"
    /\ Len(blocks) = 3
    /\ Len(outFile.data) = 2
    /\ stdout[Len(stdout)] = [count |-> 2, path |-> OUT]

\* C24: a block whose heading line has nothing but whitespace after the
\* marker gives no record, also when it has an App Pulls line with a value.
C24_BlankHeadingNoRecord ==
    \A n \in DOMAIN cards : RefHeadingText(BlockOf(n)) # <<>>

\* C25: the output file changes only in the step that writes it, which
\* comes after the whole input has been read and after the loop has passed
\* the last block, and which writes all the records at once; no step of
\* the loop and no step after the write changes it.
C25_WrittenOnceAfterLoop ==
    [][(outFile' # outFile) =>
          /\ pc = "open" /\ pc' = "print"
          /\ md = inpFile
          /\ i = Len(blocks) + 1
          /\ outFile'.exists
          /\ Len(outFile'.data) = Len(cards)]_vars
\* a run of two blocks or more that has just written a file it changed
C25_Witness ==
    /\ pc = "print"
    /\ md = inpFile
    /\ Len(blocks) >= 2
    /\ outFile.data # <<>>
    /\ outFile # before

\* the record of a run on a document that is this block and nothing else
RefAlone(b) == Card(Blocks(b)[1])

\* C26: a record in the list keeps its fields and its place while the
\* following blocks are processed, up to the end of the run, and the record
\* written to the file is the record its own block gives when it is
\* compiled alone.
C26_AppendedRecordsFrozen ==
    [][/\ pc' # "read" =>
             \A n \in DOMAIN cards :
                 n \in DOMAIN cards' /\ cards'[n] = cards[n] /\ origin'[n] = origin[n]
       /\ (pc = "open" /\ pc' = "print") =>
             \A k \in DOMAIN outFile'.data :
                 RefObject(outFile'.data[k]) = RefAlone(BlockOf(k))]_vars
\* an output of two different records, written after a third block was
\* processed
C26_Witness ==
    /\ pc = "done"
    /\ Len(blocks) = 3
    /\ origin = <<1, 2>>
    /\ cards[1] # cards[2]
    /\ RefObject(outFile.data[1]) = RefAlone(blocks[1])
    /\ RefObject(outFile.data[2]) = RefAlone(blocks[2])

\* C27: a run that failed (the input could not be read, float() raised on
\* a Solfeggio token, or the directory of the output could not be made)
\* leaves the output file as it was when the run started, absent when it
\* was absent, and prints no summary line.
C27_FailureLeavesOutput ==
    pc = "failed" =>
        /\ err \in {"OSError(read)", ValueError, "OSError(makedirs)", "FileNotFoundError(makedirs)"}
        /\ outFile = before
        /\ stdout = <<>>
\* a run that failed on the Solfeggio token of a later block, with records
\* in the list and an older file at the output path
C27_Witness ==
    /\ pc = "failed"
    /\ err = ValueError
    /\ cards # <<>>
    /\ before = Stale
    /\ outFile = Stale

\* a block with the line "- Technical: Solfeggio = 1.2.3"
RefUnparsable(b) == Contains(b, L_BadMarker)
\* the blocks with a heading for which the App Pulls value extracted is
\* empty
RefGated == {bi \in DOMAIN blocks : name_match(blocks[bi]) /\ field(blocks[bi], K_AppPulls) = <<>>}

RefBareMarkers(t) ==
    {p \in 0..Len(t) :
        /\ OccursAt(t, W_Solfeggio, p)
        /\ \E e \in (p + Len(W_Solfeggio) + 1)..Len(t) :
              /\ t[e] = "="
              /\ \A x \in (p + Len(W_Solfeggio) + 1)..(e - 1) : IsSpace(t[x])
              /\ \E g \in e..Len(t) :
                    /\ \A x \in (e + 1)..g : IsSpace(t[x])
                    /\ g = Len(t) \/ (~IsSpace(t[g + 1]) /\ ~IsTokenChar(t[g + 1]))}
\* where t has a marker with its number whose word is written in another
\* letter case
RefOtherCaseMarkers(t) ==
    {p \in 0..(Len(t) - Len(W_Solfeggio)) :
        /\ ~OccursAt(t, W_Solfeggio, p)
        /\ \A x \in DOMAIN W_Solfeggio : LowerChar(t[p + x]) = LowerChar(W_Solfeggio[x])
        /\ RefMarkerNumberAt(SubSeq(t, 1, p) \o W_Solfeggio
                                \o SubSeq(t, p + Len(W_Solfeggio) + 1, Len(t)), p) # {}}
\* the string fields of a record other than technical
RefOtherFields == ({f[1] : f \in RefStringFields} \cup {"name"}) \ {"technical"}

\* C29: a marker that the pattern does not match does not count: when the
\* Technical of a record has no "Solfeggio = <number>" marker but has the
\* word and the equals sign followed by something that opens with neither
\* a digit nor a dot, or by nothing, or has the marker in another letter
\* case, or when another field of the record has a marker, freq is
\* map_freq(Ray) as a float; and a run fails in float() only at a block
\* whose Technical has a marker with a token of digits and dots.
C29_UnmatchedMarkerIgnored ==
    /\ \A n \in DOMAIN cards :
          LET r == cards[n]
          IN  ( /\ RefMarkers(r.technical) = {}
                /\ \/ RefBareMarkers(r.technical) # {}
                   \/ RefOtherCaseMarkers(r.technical) # {}
                   \/ \E f \in RefOtherFields : RefMarkers(r[f]) # {} )
              => r.freq = FloatOfInt(RefMapFreq(r.ray))
    /\ (pc = "failed" /\ err = ValueError) => RefMarkers(field(blocks[i], K_Technical)) # {}
\* a record whose Technical is "Solfeggio = -5" and whose Ray is red
C29_Witness ==
    \E n \in DOMAIN cards :
        /\ cards[n].technical = W_Solfeggio \o <<" ", "=", " ", "-", "5">>
        /\ RefBareMarkers(cards[n].technical) # {}
        /\ cards[n].ray = W_red
        /\ cards[n].freq = [int |-> 285, frac |-> <<>>]

\* the characters of ASCII that are punctuation, the underscore apart
RefAsciiPunctuation == {"!", "-", ".", ",", ";", ":", "(", ")", "=", "#", "/"}
RefNonEmptyKeys(r) == r.name # <<>> /\ r.appPulls # <<>> /\ r.id # <<>>

\* C30: every record has a non-empty name, a non-empty appPulls and a
\* non-empty id, and its id has only lowercase letters, digits and
\* underscores.
C30_IdLowercaseDigitsUnderscore ==
    \A n \in DOMAIN cards :
        /\ RefNonEmptyKeys(cards[n])
        /\ \A x \in DOMAIN cards[n].id :
              cards[n].id[x] \in Range(LowerChars) \cup Range(Digits) \cup {"_"}
\* C30, amended: every record has a non-empty name, a non-empty appPulls
\* and a non-empty id, and its id has no whitespace, no ASCII punctuation
\* but the underscore and no ASCII uppercase letter; a word character
\* outside ASCII that str.lower() leaves as it is stays in the id.
C30_IdWithoutAsciiUpperOrPunctuation ==
    \A n \in DOMAIN cards :
        /\ RefNonEmptyKeys(cards[n])
        /\ \A x \in DOMAIN cards[n].id :
              /\ ~IsSpace(cards[n].id[x])
              /\ cards[n].id[x] \notin Range(UpperChars) \cup RefAsciiPunctuation
        /\ \A x \in DOMAIN cards[n].name :
              cards[n].name[x] = BOLD_A => \E y \in DOMAIN cards[n].id : cards[n].id[y] = BOLD_A
\* a record whose name has U+1D400, a blank and an ASCII capital
C30_Witness ==
    \E n \in DOMAIN cards :
        /\ cards[n].name = <<BOLD_A, " ", "B", "3">>
        /\ cards[n].id = <<BOLD_A, "_", "b", "3">>

====
